---- MODULE Spec2Model ----
(***************************************************************************)
(* Model of the IAM approver bot: the /notify-approver fan-out and the     *)
(* /slack-actions click handler, in the two builds the repository holds:   *)
(*   "A"  src/unnamed/part_000 lines 1-235                                 *)
(*   "B"  src/server.js lines 206-437                                      *)
(* Every request occupies a slot; a handler runs from one await to the     *)
(* next in one action, so requests interleave exactly at the awaits.       *)
(***************************************************************************)
EXTENDS Integers, Sequences, FiniteSets, TLC

\* ---------------------------------------------------------------- bounds
NumDeliveries == 2
MaxRecipients == 2
NumConcurrent == 2

\* ------------------------------------------------------ program constants
RATE_LIMIT_MS == 200
ApproveTransitionId == 61
RejectTransitionId == 51
IssuedTransitionIds == {ApproveTransitionId, RejectTransitionId}

\* ------------------------------------------------------------- JS values
Undefined == [t |-> "undefined"]
Str(s) == [t |-> "string", v |-> s]
Arr(a) == [t |-> "array", a |-> a]

\* JS truthiness of the values a request body can carry
Truthy(x) == IF x.t = "undefined" THEN FALSE
             ELSE IF x.t = "string" THEN x.v # ""
             ELSE TRUE

\* a JSON text either parses to a value or makes JSON.parse throw
Garbage == [json |-> FALSE]
JSON_stringify(obj) == [json |-> TRUE, val |-> obj]
Parses(text) == text.json
JSON_parse(text) == text.val

None == [status |-> 0, body |-> ""]
Response(status, body) == [status |-> status, body |-> body]

\* ------------------------------------------------------------ the world
Addresses == {"", "a@x", "b@x"}
Directory == [e \in {"a@x", "b@x"} |-> IF e = "a@x" THEN "UA" ELSE "UB"]
TicketKeys == {"IAM-100", "IAM-101"}
Secret == "s3cret"

\* an Authorization header is a sequence of tokens; " " is white space
Headers == { <<>>, <<"Bearer", " ", "wr0ng">>, <<"Bearer", " ", Secret>>,
             <<" ", "Bearer", " ", Secret, " ">> }

SeqsUpTo(S, n) == UNION { [1..k -> S] : k \in 0..n }

VARIABLES
  build,         \* which build is deployed: "A" or "B"
  SHARED_SECRET, \* process.env.SHARED_SECRET: "" when unset
  req,           \* slot -> the inbound request
  pc,            \* slot -> position of its handler
  resp,          \* slot -> the HTTP response sent, None while there is none
  sent,          \* slot -> how many times the handler has written a response
  log,           \* slot -> outbound calls begun and pauses taken, in order
  emails,        \* slot -> the normalised recipient list (dispatch)
  results,       \* slot -> the results array (dispatch)
  idx,           \* slot -> index of the recipient being attempted (dispatch)
  proceeded,     \* slot -> jiraTransition returned without throwing
  status,        \* ticket -> workflow status in the tracker
  changes,       \* ticket -> number of status changes the tracker applied
  comments       \* ticket -> comments appended in the tracker

vars == <<build, SHARED_SECRET, req, pc, resp, sent, log, emails, results, idx,
          proceeded, status, changes, comments>>

Slots == DOMAIN req

\* ------------------------------------------------------------- the log
\* an outbound call (or timer) begun by a handler; ret is set when it returns
Call(op, arg) == [op |-> op, arg |-> arg, ret |-> "pending"]
Returned(l, r) == [l EXCEPT ![Len(l)].ret = r]
Ops(l, op) == SelectSeq(l, LAMBDA e : e.op = op)
IsTimer(e) == e.op = "setTimeout"
ExternalCalls(l) == SelectSeq(l, LAMBDA e : ~IsTimer(e))

\* ------------------------------------------------------------ requests
NotifyPath == "/notify-approver"
ActionsPath == "/slack-actions"

RecipientInputs ==
  {Undefined, Str(""), Str("a@x")} \cup {Arr(s) : s \in SeqsUpTo(Addresses, MaxRecipients)}

DispatchRequests ==
  { [path |-> NotifyPath, auth |-> h,
     body |-> [approverEmails |-> v, issueKey |-> "IAM-100",
               issueUrl |-> "https://jira/browse/IAM-100"]] :
       h \in Headers, v \in RecipientInputs }

\* the value a build puts in a decision button
ButtonValue(b, key, transitionId) ==
  IF b = "A" THEN JSON_stringify([issueKey |-> key, transitionId |-> transitionId])
  ELSE JSON_stringify([key |-> key, transitionId |-> transitionId])

EnvelopeAt(value, channel, ts, hook) ==
  JSON_stringify([user |-> [id |-> "U1"], channel |-> [id |-> channel],
                  message |-> [ts |-> ts], response_url |-> hook,
                  actions |-> <<[value |-> value]>>])

Envelope(value) == EnvelopeAt(value, "C1", "111.222", "hook-1")

\* the chat platform sends no Authorization header, and the endpoint takes
\* any POST: the token may be one that was issued, or one naming a
\* transition the dispatcher never puts in a button
ActionRequests(b) ==
  { [path |-> ActionsPath, auth |-> <<>>, body |-> [payload |-> p]] :
      p \in {Garbage, Envelope(Garbage)} \cup
            { Envelope(ButtonValue(b, k, t)) : k \in TicketKeys, t \in IssuedTransitionIds } \cup
            { Envelope(ButtonValue(b, "IAM-100", 31)) } }

IsDispatch(i) == req[i].path = NotifyPath
IsAction(i) == req[i].path = ActionsPath

\* ----------------------------------------------------------- middleware
RECURSIVE TrimStart(_)
TrimStart(h) == IF h # <<>> /\ Head(h) = " " THEN TrimStart(Tail(h)) ELSE h
RECURSIVE TrimEnd(_)
TrimEnd(h) == IF h # <<>> /\ h[Len(h)] = " " THEN TrimEnd(SubSeq(h, 1, Len(h) - 1)) ELSE h
Trim(h) == TrimEnd(TrimStart(h))

Bearer(secret) == <<"Bearer", " ", secret>>

\* a build without the /slack-actions exemption
AuthorizedNoExemption(r) ==
  SHARED_SECRET = "" \/ Trim(r.auth) = Bearer(SHARED_SECRET)

\* a build whose middleware lets everything through
AuthorizedAlways(r) == TRUE

\* the security middleware calls next()
Authorized(r) ==
  \/ r.path = ActionsPath
  \/ SHARED_SECRET = ""
  \/ Trim(r.auth) = Bearer(SHARED_SECRET)

Unauthorized(i) ==
  /\ pc[i] = "arrived"
  /\ ~Authorized(req[i])
  /\ resp' = [resp EXCEPT ![i] = Response(401, [ok |-> FALSE, error |-> "unauthorized"])]
  /\ sent' = [sent EXCEPT ![i] = @ + 1]
  /\ pc' = [pc EXCEPT ![i] = "done"]
  /\ UNCHANGED <<build, SHARED_SECRET, req, log, emails, results, idx,
                 proceeded, status, changes, comments>>

\* ------------------------------------------------ /notify-approver handler
\* let emails = body.approverEmails || []; if (!Array.isArray(emails)) emails = [emails].filter(Boolean)
Normalize(v) ==
  LET e0 == IF Truthy(v) THEN v ELSE Arr(<<>>)
  IN  IF e0.t = "array" THEN e0.a
      ELSE SelectSeq(<<e0.v>>, LAMBDA x : x # "")

\* the recipients as the caller wrote them
Requested(r) ==
  LET v == r.body.approverEmails
  IN  IF v.t = "array" THEN v.a ELSE IF v.t = "string" THEN <<v.v>> ELSE <<>>

\* the two decision buttons of the direct message (build A only)
Buttons(b, issueKey) ==
  IF b = "A"
  THEN <<ButtonValue(b, issueKey, ApproveTransitionId), ButtonValue(b, issueKey, RejectTransitionId)>>
  ELSE <<>>

PushOk(res, email) == Append(res, [email |-> email, ok |-> TRUE])

\* a failure that leaves no entry behind
PushFailDropped(res, email, msg) == res

PushFail(res, email, msg) == Append(res, [email |-> email, ok |-> FALSE, error |-> msg])

DispatchUnchanged == UNCHANGED <<build, SHARED_SECRET, req, proceeded, status, changes, comments>>

\* a loop that walks the recipients from the end
StartAttemptReversed(i, k, l) ==
  /\ idx' = [idx EXCEPT ![i] = k]
  /\ log' = [log EXCEPT ![i] =
        Append(l, Call("lookupByEmail", [email |-> emails'[i][Len(emails'[i]) - k + 1]]))]
  /\ pc' = [pc EXCEPT ![i] = "lookup"]
  /\ UNCHANGED <<resp, sent>>

\* for (const email of emails) { try { const userId = await lookupUserIdByEmail(email)
StartAttempt(i, k, l) ==
  /\ idx' = [idx EXCEPT ![i] = k]
  /\ log' = [log EXCEPT ![i] = Append(l, Call("lookupByEmail", [email |-> emails'[i][k]]))]
  /\ pc' = [pc EXCEPT ![i] = "lookup"]
  /\ UNCHANGED <<resp, sent>>

\* await new Promise(r => setTimeout(r, RATE_LIMIT_MS))
StartPause(i, l) ==
  /\ log' = [log EXCEPT ![i] = Append(l, Call("setTimeout", [ms |-> RATE_LIMIT_MS]))]
  /\ pc' = [pc EXCEPT ![i] = "pause"]
  /\ UNCHANGED <<idx, resp, sent>>

\* the loop is over: return res.json({ ok: true, results })
Respond200(i, l) ==
  /\ resp' = [resp EXCEPT ![i] = Response(200, [ok |-> TRUE, results |-> results'[i]])]
  /\ sent' = [sent EXCEPT ![i] = @ + 1]
  /\ pc' = [pc EXCEPT ![i] = "done"]
  /\ log' = [log EXCEPT ![i] = l]
  /\ idx' = idx

\* the next iteration, or the response after the last one
NextIteration(i, l) ==
  IF idx[i] < Len(emails[i]) THEN StartAttempt(i, idx[i] + 1, l) ELSE Respond200(i, l)

\* a catch block that skips the pause
AttemptFailedNoPause(i, l, msg) ==
  /\ results' = [results EXCEPT ![i] = PushFail(@, emails[i][idx[i]], msg)]
  /\ emails' = emails
  /\ NextIteration(i, l)

\* a catch block that gives up on the batch
AttemptFailedAbort(i, l, msg) ==
  /\ results' = [results EXCEPT ![i] = PushFail(@, emails[i][idx[i]], msg)]
  /\ emails' = emails
  /\ Respond200(i, l)

\* a catch block that tries the same recipient again
AttemptFailedRetry(i, l, msg) ==
  /\ UNCHANGED <<emails, results>>
  /\ StartAttempt(i, idx[i], l)

\* catch (err) { results.push({ email, ok: false, error: err.message }) } then the pause
AttemptFailed(i, l, msg) ==
  /\ results' = [results EXCEPT ![i] = PushFail(@, emails[i][idx[i]], msg)]
  /\ emails' = emails
  /\ StartPause(i, l)

\* a results array declared at module level, shared by every request
AttemptSucceededShared(i, l) ==
  /\ results' = [j \in DOMAIN results |-> PushOk(results[j], emails[i][idx[i]])]
  /\ emails' = emails
  /\ StartPause(i, l)

\* results.push({ email, ok: true }) then the pause
AttemptSucceeded(i, l) ==
  /\ results' = [results EXCEPT ![i] = PushOk(@, emails[i][idx[i]])]
  /\ emails' = emails
  /\ StartPause(i, l)

\* an outer catch that swallows the error and goes on to the recipients
Respond500Swallowed(i, l, msg) ==
  /\ UNCHANGED <<emails, results>>
  /\ StartAttempt(i, 1, l)

\* the outer catch: res.status(500).json({ ok: false, error: err.message })
Respond500(i, l, msg) ==
  /\ resp' = [resp EXCEPT ![i] = Response(500, [ok |-> FALSE, error |-> msg])]
  /\ sent' = [sent EXCEPT ![i] = @ + 1]
  /\ pc' = [pc EXCEPT ![i] = "done"]
  /\ log' = [log EXCEPT ![i] = l]
  /\ UNCHANGED <<emails, results, idx>>

\* the handler up to its first await
NotifyApprover(i) ==
  /\ pc[i] = "arrived"
  /\ IsDispatch(i)
  /\ Authorized(req[i])
  /\ LET em == Normalize(req[i].body.approverEmails)
     IN  IF Len(em) = 0
         THEN /\ resp' = [resp EXCEPT ![i] =
                    Response(400, [ok |-> FALSE, error |-> "no approverEmails provided"])]
              /\ sent' = [sent EXCEPT ![i] = @ + 1]
              /\ pc' = [pc EXCEPT ![i] = "done"]
              /\ UNCHANGED <<log, emails, results, idx>>
         ELSE /\ emails' = [emails EXCEPT ![i] = em]
              /\ results' = results
              /\ IF build = "A"
                 THEN /\ log' = [log EXCEPT ![i] =
                            Append(@, Call("jiraGetIssue", [issueKey |-> req[i].body.issueKey]))]
                      /\ pc' = [pc EXCEPT ![i] = "getIssue"]
                      /\ UNCHANGED <<idx, resp, sent>>
                 ELSE StartAttempt(i, 1, log[i])
  /\ DispatchUnchanged

\* const issueData = await jiraGetIssue(issueKey)   (build A)
JiraGetIssueReturns(i) ==
  /\ pc[i] = "getIssue"
  /\ \E ok \in BOOLEAN :
       IF ok
       THEN /\ UNCHANGED <<emails, results>>
            /\ StartAttempt(i, 1, Returned(log[i], "ok"))
       ELSE Respond500(i, Returned(log[i], "fail"), "Failed to fetch Jira issue")
  /\ DispatchUnchanged

\* lookupUserIdByEmail returns or throws
LookupReturns(i) ==
  /\ pc[i] = "lookup"
  /\ LET email == emails[i][idx[i]]
     IN  \E ok \in BOOLEAN :
           /\ ok => email \in DOMAIN Directory
           /\ IF ok
              THEN /\ log' = [log EXCEPT ![i] = Append(Returned(@, "ok"),
                          Call("chat.postMessage",
                               [channel |-> Directory[email],
                                buttons |-> Buttons(build, req[i].body.issueKey)]))]
                   /\ pc' = [pc EXCEPT ![i] = "send"]
                   /\ UNCHANGED <<emails, results, idx, resp, sent>>
              ELSE AttemptFailed(i, Returned(log[i], "fail"), "lookupByEmail failed")
  /\ DispatchUnchanged

\* slackPost("chat.postMessage", ...) returns or throws
PostMessageReturns(i) ==
  /\ pc[i] = "send"
  /\ \E ok \in BOOLEAN :
       IF ok THEN AttemptSucceeded(i, Returned(log[i], "ok"))
       ELSE AttemptFailed(i, Returned(log[i], "fail"), "chat.postMessage failed")
  /\ DispatchUnchanged

\* the timer fires
PauseElapsed(i) ==
  /\ pc[i] = "pause"
  /\ UNCHANGED <<emails, results>>
  /\ NextIteration(i, Returned(log[i], "ok"))
  /\ DispatchUnchanged

\* --------------------------------------------------- /slack-actions handler
\* what the handler reads from an envelope that parsed
Payload(i) == JSON_parse(req[i].body.payload)
TokenText(i) == Payload(i).actions[1].value
EnvelopeParses(i) == Parses(req[i].body.payload)
TokenDecodes(i) == EnvelopeParses(i) /\ Parses(TokenText(i))

\* const { issueKey, transitionId } = JSON.parse(action.value)   (B: action.key)
TokenKey(b, tok) == IF b = "A" THEN tok.issueKey ELSE tok.key
IssueKey(i) == TokenKey(build, JSON_parse(TokenText(i)))
TransitionId(i) == JSON_parse(TokenText(i)).transitionId

\* const decision = transitionId === 61 ? "Approved" : "Rejected"
Decision(transitionId) == IF transitionId = ApproveTransitionId THEN "Approved" ELSE "Rejected"

\* real_name || display_name || email || payload.user.id
Profiles == [real_name : {"", "Ann Lee"}, display_name : {"", "ann"}, email : {"", "ann@x"}]
ApproverName(profile, userId) ==
  IF profile.real_name # "" THEN profile.real_name
  ELSE IF profile.display_name # "" THEN profile.display_name
  ELSE IF profile.email # "" THEN profile.email
  ELSE userId

\* the handler's scope binds no issueUrl: building the chat.update blocks
\* throws a ReferenceError before slackPost is called
issueUrlBound == FALSE

\* the tracker: a decision transition is valid only while the ticket awaits one
Awaiting == "Awaiting Approval"
TrackerAnswer(key) == IF status[key] = Awaiting THEN "ok" ELSE "conflict"
\* where the workflow takes a ticket on transition id
WorkflowTarget(id) ==
  IF id = ApproveTransitionId THEN "Approved"
  ELSE IF id = RejectTransitionId THEN "Rejected"
  ELSE "Other"

\* a jiraTransition that does not look at the answer
TransitionThrowsNever(ret) == FALSE

\* a jiraTransition that takes a conflict answer for success
TransitionThrowsOnlyOnError(ret) == ret = "error"

\* a jiraTransition that throws on a conflict only
TransitionThrowsOnlyOnConflict(ret) == ret = "conflict"

\* if (!res.ok) throw new Error(...)
TransitionThrows(ret) == ret # "ok"

\* the catch block's response
Catch(b) == IF b = "A" THEN Response(500, "Error processing action") ELSE Response(200, "")

\* res.send("")
Ack == Response(200, "")

ActionLocals == UNCHANGED <<build, SHARED_SECRET, req, emails, results, idx>>

\* a handler whose success path and catch block both write a response
FinishSendsTwice(i, l, r) ==
  /\ log' = [log EXCEPT ![i] = l]
  /\ resp' = [resp EXCEPT ![i] = r]
  /\ sent' = [sent EXCEPT ![i] = @ + 2]
  /\ pc' = [pc EXCEPT ![i] = "done"]

Finish(i, l, r) ==
  /\ log' = [log EXCEPT ![i] = l]
  /\ resp' = [resp EXCEPT ![i] = r]
  /\ sent' = [sent EXCEPT ![i] = @ + 1]
  /\ pc' = [pc EXCEPT ![i] = "done"]

Await(i, l, call, at) ==
  /\ log' = [log EXCEPT ![i] = Append(l, call)]
  /\ pc' = [pc EXCEPT ![i] = at]
  /\ UNCHANGED <<resp, sent>>

\* the handler up to its first await
SlackActions(i) ==
  /\ pc[i] = "arrived"
  /\ IsAction(i)
  /\ Authorized(req[i])
  /\ IF TokenDecodes(i)
     THEN Await(i, log[i],
                Call("transition", [issueKey |-> IssueKey(i), transitionId |-> TransitionId(i)]),
                "transition")
     ELSE Finish(i, log[i], Catch(build))
  /\ ActionLocals
  /\ UNCHANGED <<proceeded, status, changes, comments>>

\* the tracker answers the transition call (or cannot be reached)
JiraTransitionReturns(i) ==
  /\ pc[i] = "transition"
  /\ \E ret \in {TrackerAnswer(IssueKey(i)), "error"} :
       /\ IF ret = "ok"
          THEN /\ status' = [status EXCEPT ![IssueKey(i)] = WorkflowTarget(log[i][Len(log[i])].arg.transitionId)]
               /\ changes' = [changes EXCEPT ![IssueKey(i)] = @ + 1]
          ELSE UNCHANGED <<status, changes>>
       /\ IF TransitionThrows(ret)
          THEN /\ Finish(i, Returned(log[i], ret), Catch(build))
               /\ proceeded' = proceeded
          ELSE /\ proceeded' = [proceeded EXCEPT ![i] = TRUE]
               /\ IF build = "A"
                  THEN Await(i, Returned(log[i], ret),
                             Call("users.info", [user |-> Payload(i).user.id]), "profile")
                  ELSE Await(i, Returned(log[i], ret),
                             Call("response_url", [url |-> Payload(i).response_url,
                                                   replace_original |-> TRUE,
                                                   controls |-> FALSE]), "update")
  /\ ActionLocals
  /\ comments' = comments

\* slackGet("users.info") returns the profile or throws   (build A)
UsersInfoReturns(i) ==
  /\ pc[i] = "profile"
  /\ \/ Finish(i, Returned(log[i], "fail"), Catch(build))
     \/ \E profile \in Profiles :
          Await(i, Returned(log[i], "ok"),
                Call("addComment",
                     [issueKey |-> IssueKey(i),
                      decision |-> Decision(TransitionId(i)),
                      by |-> ApproverName(profile, Payload(i).user.id)]),
                "comment")
  /\ ActionLocals
  /\ UNCHANGED <<proceeded, status, changes, comments>>

\* jiraAddComment returns or throws, then the chat.update payload is built   (build A)
AddCommentReturns(i) ==
  /\ pc[i] = "comment"
  /\ \E ok \in BOOLEAN :
       IF ok
       THEN /\ comments' = [comments EXCEPT ![IssueKey(i)] = Append(@, log[i][Len(log[i])].arg)]
            /\ IF issueUrlBound
               THEN Await(i, Returned(log[i], "ok"),
                          Call("chat.update", [channel |-> Payload(i).channel.id,
                                               ts |-> Payload(i).message.ts,
                                               decision |-> Decision(TransitionId(i)),
                                               controls |-> FALSE]), "update")
               ELSE Finish(i, Returned(log[i], "ok"), Catch(build))
       ELSE /\ comments' = comments
            /\ Finish(i, Returned(log[i], "fail"), Catch(build))
  /\ ActionLocals
  /\ UNCHANGED <<proceeded, status, changes>>

\* the message update returns; res.send("") follows it
UpdateReturns(i) ==
  /\ pc[i] = "update"
  /\ \E ok \in BOOLEAN :
       IF ok \/ build = "B"
       THEN Finish(i, Returned(log[i], IF ok THEN "ok" ELSE "fail"), Ack)
       ELSE Finish(i, Returned(log[i], "fail"), Catch(build))
  /\ ActionLocals
  /\ UNCHANGED <<proceeded, status, changes, comments>>

\* ------------------------------------------------------- specifications
AnyRequest(b) == DispatchRequests \cup ActionRequests(b)

InitWith(slots, withDispatch) ==
  /\ build \in {"A", "B"}
  /\ SHARED_SECRET \in {"", Secret}
  /\ req \in [slots -> IF withDispatch THEN AnyRequest(build) ELSE ActionRequests(build)]
  /\ pc = [i \in slots |-> "arrived"]
  /\ resp = [i \in slots |-> None]
  /\ sent = [i \in slots |-> 0]
  /\ log = [i \in slots |-> <<>>]
  /\ emails = [i \in slots |-> <<>>]
  /\ results = [i \in slots |-> <<>>]
  /\ idx = [i \in slots |-> 0]
  /\ proceeded = [i \in slots |-> FALSE]
  /\ status = [k \in TicketKeys |-> Awaiting]
  /\ changes = [k \in TicketKeys |-> 0]
  /\ comments = [k \in TicketKeys |-> <<>>]

\* one request of either kind: a handler keeps all its state in locals, so
\* requests meet only at the tracker, which SpecAction exercises
Init == InitWith({1}, TRUE)

NextDispatch ==
  \/ \E i \in Slots : Unauthorized(i)
  \/ \E i \in Slots : NotifyApprover(i)
  \/ \E i \in Slots : JiraGetIssueReturns(i)
  \/ \E i \in Slots : LookupReturns(i)
  \/ \E i \in Slots : PostMessageReturns(i)
  \/ \E i \in Slots : PauseElapsed(i)

NextAction ==
  \/ \E i \in Slots : SlackActions(i)
  \/ \E i \in Slots : JiraTransitionReturns(i)
  \/ \E i \in Slots : UsersInfoReturns(i)
  \/ \E i \in Slots : AddCommentReturns(i)
  \/ \E i \in Slots : UpdateReturns(i)

Next == NextDispatch \/ NextAction

Spec == Init /\ [][Next]_vars

\* every collaborator call returns and every timer fires: a handler waiting
\* at an await is resumed
SpecLive == Init /\ [][Next]_vars /\ WF_vars(Next)

\* requests of both kinds handled concurrently: two dispatches with different
\* recipient lists, one turned away, and clicks on two tickets' messages
ConcurrentRequests(b) ==
  { [path |-> NotifyPath, auth |-> h,
     body |-> [approverEmails |-> v, issueKey |-> "IAM-100",
               issueUrl |-> "https://jira/browse/IAM-100"]] :
       h \in {Bearer(Secret)}, v \in {Arr(<<"a@x", "b@x">>), Arr(<<"b@x">>)} }
  \cup
  { [path |-> NotifyPath, auth |-> <<>>,
     body |-> [approverEmails |-> Arr(<<"a@x">>), issueKey |-> "IAM-100",
               issueUrl |-> "https://jira/browse/IAM-100"]] }
  \cup
  { [path |-> ActionsPath, auth |-> <<>>, body |-> [payload |-> p]] :
      p \in { Envelope(ButtonValue(b, "IAM-100", ApproveTransitionId)),
              EnvelopeAt(ButtonValue(b, "IAM-101", RejectTransitionId),
                         "C2", "333.444", "hook-2") } }

InitConcurrent ==
  /\ build \in {"A", "B"}
  /\ SHARED_SECRET = Secret
  /\ req \in [1..NumConcurrent -> ConcurrentRequests(build)]
  /\ pc = [i \in 1..NumConcurrent |-> "arrived"]
  /\ resp = [i \in 1..NumConcurrent |-> None]
  /\ sent = [i \in 1..NumConcurrent |-> 0]
  /\ log = [i \in 1..NumConcurrent |-> <<>>]
  /\ emails = [i \in 1..NumConcurrent |-> <<>>]
  /\ results = [i \in 1..NumConcurrent |-> <<>>]
  /\ idx = [i \in 1..NumConcurrent |-> 0]
  /\ proceeded = [i \in 1..NumConcurrent |-> FALSE]
  /\ status = [k \in TicketKeys |-> Awaiting]
  /\ changes = [k \in TicketKeys |-> 0]
  /\ comments = [k \in TicketKeys |-> <<>>]

SpecConcurrent == InitConcurrent /\ [][Next]_vars

\* click deliveries only, handled concurrently
InitAction == InitWith(1..NumDeliveries, FALSE)

SpecAction == InitAction /\ [][NextAction]_vars

\* ---------------------------------------------------- reading the record
Responded(i) == resp[i].status # 0
TransitionCalls(i) == Ops(log[i], "transition")
CommentCalls(i) == Ops(log[i], "addComment")
UpdateCalls(i) == SelectSeq(log[i], LAMBDA e : e.op \in {"chat.update", "response_url"})
AllCallsSucceeded(i) == log[i] # <<>> /\ \A p \in 1..Len(log[i]) : log[i][p].ret = "ok"
SawConflict(i) == \E p \in 1..Len(log[i]) : log[i][p].op = "transition" /\ log[i][p].ret = "conflict"

\* the position in l of the j-th identity lookup, and whether that attempt succeeded
LookupPos(l, j) ==
  CHOOSE p \in 1..Len(l) :
    /\ l[p].op = "lookupByEmail"
    /\ Cardinality({q \in 1..p : l[q].op = "lookupByEmail"}) = j
AttemptOk(l, j) ==
  LET p == LookupPos(l, j)
  IN  /\ l[p].ret = "ok"
      /\ p < Len(l)
      /\ l[p + 1].op = "chat.postMessage"
      /\ l[p + 1].ret = "ok"
ElapsedPauses(l) == SelectSeq(l, LAMBDA e : IsTimer(e) /\ e.ret = "ok")

\* ------------------------------------------------------------- claims

\* C1: once a delivery whose envelope parses has begun any collaborator call,
\* its acknowledgment has already been sent to the chat platform.
AckBeforeCollaborators ==
  \A i \in Slots :
    (IsAction(i) /\ EnvelopeParses(i) /\ ExternalCalls(log[i]) # <<>>) => Responded(i)

\* C2: when an event is delivered twice and the second delivery's transition
\* call is answered with a conflict because the first one was applied, the
\* second delivery does not fail (the platform sees the empty
\* acknowledgment) and still attempts the message update.
ConflictTreatedAsSuccess ==
  \A i, j \in Slots :
    (/\ i # j /\ IsAction(i) /\ req[j] = req[i] /\ proceeded[j]
     /\ pc[i] = "done" /\ SawConflict(i)) =>
      (resp[i] = Ack /\ UpdateCalls(i) # <<>>)

\* C3: whatever a collaborator answers, the response to a delivery with a
\* parsable envelope and a decodable token is the empty 200 acknowledgment.
ResponseIsAlwaysAck ==
  \A i \in Slots :
    (IsAction(i) /\ TokenDecodes(i) /\ Responded(i)) => resp[i] = Ack

\* C4: in the build with the attribution comment (A), a finished delivery all
\* of whose collaborator calls succeeded made
\* exactly one transition call with the token's key and id, exactly one
\* addComment call, and exactly one message update addressed to the origin
\* channel and timestamp with the controls removed.
SingleDeliveryCompletesAllSteps ==
  \A i \in Slots :
    (build = "A" /\ IsAction(i) /\ TokenDecodes(i) /\ pc[i] = "done" /\ AllCallsSucceeded(i)) =>
      /\ Len(TransitionCalls(i)) = 1
      /\ TransitionCalls(i)[1].arg = [issueKey |-> IssueKey(i), transitionId |-> TransitionId(i)]
      /\ Len(CommentCalls(i)) = 1
      /\ CommentCalls(i)[1].arg.issueKey = IssueKey(i)
      /\ Len(UpdateCalls(i)) = 1
      /\ UpdateCalls(i)[1].op = "chat.update"
      /\ UpdateCalls(i)[1].arg.channel = Payload(i).channel.id
      /\ UpdateCalls(i)[1].arg.ts = Payload(i).message.ts
      /\ UpdateCalls(i)[1].arg.controls = FALSE

SharedLookupFailed(i) ==
  \E p \in 1..Len(log[i]) : log[i][p].op = "jiraGetIssue" /\ log[i][p].ret = "fail"

\* C6: an admitted request with a non-empty recipient list whose shared
\* lookup did not fail ends with a 200 response, and a 200 response carries
\* one result per requested recipient, the j-th result naming the j-th
\* requested address.
ResultsMatchRecipients ==
  \A i \in Slots :
    /\ (/\ IsDispatch(i) /\ pc[i] = "done" /\ Authorized(req[i])
        /\ Normalize(req[i].body.approverEmails) # <<>>
        /\ ~SharedLookupFailed(i)) => resp[i].status = 200
    /\ (IsDispatch(i) /\ resp[i].status = 200) =>
      LET rq == Requested(req[i])
          rs == resp[i].body.results
      IN  /\ rq # <<>>
          /\ Len(rs) = Len(rq)
          /\ \A j \in 1..Len(rq) : rs[j].email = rq[j]

\* C6 witness: two recipients, the first one's send failed, both are reported.
ResultsMatchRecipientsWitness ==
  \E i \in Slots :
    /\ IsDispatch(i) /\ resp[i].status = 200
    /\ Requested(req[i]) = <<"a@x", "b@x">>
    /\ ~resp[i].body.results[1].ok
    /\ resp[i].body.results[1].error = "chat.postMessage failed"
    /\ resp[i].body.results[2].ok

\* C7: a dispatch whose recipient input is empty or all falsy, once handled,
\* has been answered 400 and has made no external call.
EmptyRecipientsRejected ==
  \A i \in Slots :
    LET v == req[i].body.approverEmails
        allFalsy == ~Truthy(v) \/ (v.t = "array" /\ \A j \in 1..Len(v.a) : v.a[j] = "")
    IN  (IsDispatch(i) /\ Authorized(req[i]) /\ pc[i] # "arrived" /\ allFalsy) =>
          (resp[i].status = 400 /\ ExternalCalls(log[i]) = <<>>)

\* C8: every result recorded so far is ok exactly when that recipient's
\* lookup and send both succeeded, a failure carries its error, and a 200
\* response is sent only after every recipient has been attempted in turn.
FailureIsolated ==
  \A i \in Slots :
    IsDispatch(i) =>
      /\ \A j \in 1..Len(results[i]) :
           /\ results[i][j].ok = AttemptOk(log[i], j)
           /\ ~results[i][j].ok => results[i][j].error # ""
      /\ resp[i].status = 200 =>
           LET at == Ops(log[i], "lookupByEmail")
           IN  /\ Len(at) = Len(emails[i])
               /\ Len(results[i]) = Len(emails[i])
               /\ \A j \in 1..Len(at) : at[j].arg.email = emails[i][j]

\* C8 witness: the first recipient's lookup failed and the second recipient
\* was still resolved, sent to and reported ok.
FailureIsolatedWitness ==
  \E i \in Slots :
    /\ IsDispatch(i) /\ resp[i].status = 200
    /\ Len(emails[i]) = 2
    /\ ~AttemptOk(log[i], 1) /\ AttemptOk(log[i], 2)
    /\ ~results[i][1].ok /\ results[i][2].ok

\* C9: every identity lookup but a request's first is begun right after a
\* pause of RATE_LIMIT_MS has elapsed, and a 200 response for N recipients
\* comes after at least N-1 elapsed pauses.
PauseBetweenAttempts ==
  \A i \in Slots :
    IsDispatch(i) =>
      /\ \A p \in 1..Len(log[i]) :
           (log[i][p].op = "lookupByEmail" /\ p # LookupPos(log[i], 1)) =>
             /\ IsTimer(log[i][p - 1])
             /\ log[i][p - 1].ret = "ok"
             /\ log[i][p - 1].arg.ms = RATE_LIMIT_MS
      /\ resp[i].status = 200 =>
           Len(ElapsedPauses(log[i])) >= Len(emails[i]) - 1

\* C9 witness: a 200 response for two recipients whose first attempt failed.
PauseBetweenAttemptsWitness ==
  \E i \in Slots :
    /\ IsDispatch(i) /\ resp[i].status = 200
    /\ Len(emails[i]) = 2
    /\ ~results[i][1].ok
    /\ Len(ElapsedPauses(log[i])) >= 1

\* whether the request carries the configured shared secret as its bearer
CarriesSecret(r) == Trim(r.auth) = Bearer(SHARED_SECRET)

\* C10 (as stated): a handled /notify-approver request without the secret
\* has been answered 401 and made no external call; a click delivery is
\* never answered 401.
BadCredentialAlways401 ==
  \A i \in Slots :
    /\ (IsDispatch(i) /\ ~CarriesSecret(req[i]) /\ pc[i] # "arrived") =>
         (resp[i].status = 401 /\ ExternalCalls(log[i]) = <<>>)
    /\ IsAction(i) => resp[i].status # 401

\* C10 (amended): the same, when a shared secret is configured.
BadCredential401WhenSecretSet ==
  \A i \in Slots :
    /\ (IsDispatch(i) /\ SHARED_SECRET # "" /\ ~CarriesSecret(req[i]) /\ pc[i] # "arrived") =>
         (resp[i].status = 401 /\ ExternalCalls(log[i]) = <<>>)
    /\ IsAction(i) => resp[i].status # 401

\* C10 witness: a secret is configured and a request with a wrong bearer was
\* turned away.
BadCredential401Witness ==
  \E i \in Slots :
    /\ IsDispatch(i) /\ SHARED_SECRET # ""
    /\ req[i].auth = <<"Bearer", " ", "wr0ng">>
    /\ resp[i].status = 401


\* C11: a delivery whose token does not decode, once handled, has made no
\* collaborator call and has been answered with the empty acknowledgment.
CorruptTokenStopsWithAck ==
  \A i \in Slots :
    (IsAction(i) /\ EnvelopeParses(i) /\ ~TokenDecodes(i) /\ pc[i] # "arrived") =>
      (ExternalCalls(log[i]) = <<>> /\ resp[i] = Ack)


\* ------------------------------------------------------ the token codec
\* the decision context of a button at send time
SendContext(r, channel, transitionId) ==
  [ticketKey |-> r.body.issueKey, transitionId |-> transitionId,
   originChannel |-> channel, originTimestamp |-> "111.222",
   canonicalUrl |-> r.body.issueUrl]

\* value: JSON.stringify({ issueKey, transitionId })
Encode(b, ctx) == ButtonValue(b, ctx.ticketKey, ctx.transitionId)

\* const { issueKey, transitionId } = JSON.parse(action.value)
Decode(b, text) ==
  [ticketKey |-> TokenKey(b, JSON_parse(text)), transitionId |-> JSON_parse(text).transitionId]

\* C12: every button value sent decodes to the decision context it was
\* issued for, equal in every field.
TokenRoundTrip ==
  \A i \in Slots :
    IsDispatch(i) =>
      \A p \in 1..Len(log[i]) :
        log[i][p].op = "chat.postMessage" =>
          \A n \in 1..Len(log[i][p].arg.buttons) :
            LET ctx == SendContext(req[i], log[i][p].arg.channel,
                                   IF n = 1 THEN ApproveTransitionId ELSE RejectTransitionId)
            IN  /\ log[i][p].arg.buttons[n] = Encode(build, ctx)
                /\ Decode(build, log[i][p].arg.buttons[n]) = ctx


\* C13: every value a delivery uses comes from its token or its envelope,
\* and these suffice for every step: the transition and the comment carry the
\* token's key and decision, and once the comment is written the message is
\* rewritten at the envelope's coordinates.
TokenSelfContained ==
  \A i \in Slots :
    (IsAction(i) /\ TokenDecodes(i)) =>
      /\ \A p \in 1..Len(log[i]) :
           /\ log[i][p].op = "transition" =>
                log[i][p].arg = [issueKey |-> IssueKey(i), transitionId |-> TransitionId(i)]
           /\ log[i][p].op = "users.info" => log[i][p].arg.user = Payload(i).user.id
           /\ log[i][p].op = "addComment" =>
                /\ log[i][p].arg.issueKey = IssueKey(i)
                /\ log[i][p].arg.decision = Decision(TransitionId(i))
           /\ log[i][p].op = "chat.update" =>
                /\ log[i][p].arg.channel = Payload(i).channel.id
                /\ log[i][p].arg.ts = Payload(i).message.ts
           /\ log[i][p].op = "response_url" => log[i][p].arg.url = Payload(i).response_url
      /\ (\E p \in 1..Len(log[i]) : log[i][p].op = "addComment" /\ log[i][p].ret = "ok") =>
           UpdateCalls(i) # <<>>

\* C14: a delivery whose envelope does not parse, once handled, has been
\* answered with a client error (4xx) and has made no collaborator call.
UnparsableEnvelopeClientError ==
  \A i \in Slots :
    (IsAction(i) /\ ~EnvelopeParses(i) /\ pc[i] # "arrived") =>
      (resp[i].status \in 400..499 /\ ExternalCalls(log[i]) = <<>>)

\* C15: a finished delivery whose transition succeeded or was answered with a
\* conflict has attempted the message update.
DeliveryEndsWithUpdateAttempt ==
  \A i \in Slots :
    (/\ IsAction(i) /\ TokenDecodes(i) /\ pc[i] = "done"
     /\ TransitionCalls(i) # <<>>
     /\ TransitionCalls(i)[1].ret \in {"ok", "conflict"}) =>
      UpdateCalls(i) # <<>>


\* identity lookups and sends begun by a request
RecipientCalls(i) ==
  SelectSeq(log[i], LAMBDA e : e.op \in {"lookupByEmail", "chat.postMessage"})

\* C16: a dispatch ends without a results list only with 400 for an empty
\* recipient list or with 500 for a failed shared issue lookup; after a
\* failed shared lookup no recipient is resolved or sent to; and an admitted
\* request with recipients and no failed shared lookup ends with
\* 200 {ok: true, results}, one result per recipient, whatever failed.
WholeCallFailsOnlyOnSharedFailure ==
  \A i \in Slots :
    IsDispatch(i) =>
      LET n == Len(Normalize(req[i].body.approverEmails))
      IN  /\ resp[i].status \in {0, 200, 400, 401, 500}
          /\ resp[i].status = 400 => (n = 0 /\ log[i] = <<>>)
          /\ resp[i].status = 500 => (n > 0 /\ SharedLookupFailed(i))
          /\ SharedLookupFailed(i) => (RecipientCalls(i) = <<>> /\ resp[i].status = 500)
          /\ (pc[i] = "done" /\ Authorized(req[i]) /\ n > 0 /\ ~SharedLookupFailed(i)) =>
               /\ resp[i].status = 200
               /\ resp[i].body.ok
               /\ Len(resp[i].body.results) = n

\* C16 witness: the shared issue lookup failed and the request ended with 500.
WholeCallFailsWitness ==
  \E i \in Slots :
    /\ IsDispatch(i) /\ SharedLookupFailed(i)
    /\ resp[i].status = 500
    /\ Len(emails[i]) = 2

\* C16 witness of the converse: every recipient failed and the answer is 200.
AllRecipientsFailedStill200 ==
  \E i \in Slots :
    /\ IsDispatch(i) /\ resp[i].status = 200
    /\ Len(resp[i].body.results) = 2
    /\ \A j \in 1..2 : ~resp[i].body.results[j].ok


\* calls and timers of a request that have not returned yet
InFlight(l) == SelectSeq(l, LAMBDA e : e.ret = "pending")

\* C17: a dispatch request has at most one call or pause outstanding; its
\* identity lookups are begun in input order, one per iteration; a send
\* directly follows its own successful lookup; and everything before the
\* operation in progress has returned.
RecipientsSequentialInOrder ==
  \A i \in Slots :
    IsDispatch(i) =>
      LET l == log[i]
          at == Ops(l, "lookupByEmail")
      IN  /\ Len(InFlight(l)) <= 1
          /\ \A p \in 1..Len(l) : l[p].ret = "pending" => p = Len(l)
          /\ Len(at) = idx[i]
          /\ \A j \in 1..Len(at) : at[j].arg.email = emails[i][j]
          /\ \A p \in 1..Len(l) :
               l[p].op = "chat.postMessage" =>
                 /\ p > 1
                 /\ l[p - 1].op = "lookupByEmail"
                 /\ l[p - 1].ret = "ok"
                 /\ l[p].arg.channel = Directory[l[p - 1].arg.email]

\* C17 witness: the second recipient's lookup is in flight, the first
\* recipient's send has returned, and the two addresses differ.
RecipientsSequentialWitness ==
  \E i \in Slots :
    /\ IsDispatch(i) /\ pc[i] = "lookup" /\ idx[i] = 2
    /\ emails[i] = <<"b@x", "a@x">>
    /\ Len(Ops(log[i], "chat.postMessage")) = 1
    /\ Len(InFlight(log[i])) = 1


\* deliveries for ticket k that satisfy P
DeliveriesFor(k, P(_)) == {i \in Slots : IsAction(i) /\ TokenDecodes(i) /\ IssueKey(i) = k /\ P(i)}
CommentWritten(i) == \E p \in 1..Len(log[i]) : log[i][p].op = "addComment" /\ log[i][p].ret = "ok"
HasProceeded(i) == proceeded[i]

\* C18: under any interleaving each dispatch's results hold exactly its own
\* recipients so far, in its own order; each delivery's calls name only its
\* own ticket and message; and a ticket's status and comments change only
\* through deliveries for that ticket.
RequestsShareNoState ==
  /\ \A i \in Slots :
       IsDispatch(i) =>
         /\ Len(results[i]) \in {idx[i] - 1, idx[i]} \cap Nat
         /\ \A j \in 1..Len(results[i]) : results[i][j].email = Requested(req[i])[j]
         /\ resp[i].status = 200 =>
              /\ Len(resp[i].body.results) = Len(Requested(req[i]))
              /\ \A j \in 1..Len(Requested(req[i])) :
                   resp[i].body.results[j].email = Requested(req[i])[j]
  /\ \A i \in Slots :
       (IsAction(i) /\ TokenDecodes(i)) =>
         \A p \in 1..Len(log[i]) :
           /\ log[i][p].op \in {"transition", "addComment"} => log[i][p].arg.issueKey = IssueKey(i)
           /\ log[i][p].op = "response_url" => log[i][p].arg.url = Payload(i).response_url
           /\ log[i][p].op = "chat.update" =>
                (log[i][p].arg.channel = Payload(i).channel.id /\ log[i][p].arg.ts = Payload(i).message.ts)
  /\ \A k \in TicketKeys :
       /\ changes[k] = Cardinality(DeliveriesFor(k, HasProceeded))
       /\ Len(comments[k]) = Cardinality(DeliveriesFor(k, CommentWritten))
       /\ \A n \in 1..Len(comments[k]) : comments[k][n].issueKey = k

\* C18 witness: two dispatches with different recipient lists are both in
\* mid-flight, each holding one result of its own, while a ticket has been
\* transitioned by neither.
RequestsShareNoStateWitness ==
  \E i, j \in Slots :
    /\ i # j /\ IsDispatch(i) /\ IsDispatch(j)
    /\ Requested(req[i]) = <<"a@x", "b@x">> /\ Requested(req[j]) = <<"b@x">>
    /\ pc[i] = "send" /\ idx[i] = 2 /\ Len(results[i]) = 1
    /\ pc[j] = "pause" /\ Len(results[j]) = 1

\* C18 witness for the click path: deliveries for two tickets have both
\* transitioned their own ticket.
TwoTicketsWitness ==
  \E i, j \in Slots :
    /\ i # j /\ IsAction(i) /\ IsAction(j)
    /\ IssueKey(i) = "IAM-100" /\ IssueKey(j) = "IAM-101"
    /\ proceeded[i] /\ proceeded[j]
    /\ status["IAM-100"] = "Approved" /\ status["IAM-101"] = "Rejected"


\* C19: a delivery invokes each collaborator operation at most once, and a
\* dispatch invokes the identity lookup once per recipient reached and the
\* send at most once per lookup, whether the calls succeed or fail.
NoRetries ==
  \A i \in Slots :
    /\ IsAction(i) =>
         /\ \A op \in {"transition", "users.info", "addComment"} : Len(Ops(log[i], op)) <= 1
         /\ Len(UpdateCalls(i)) <= 1
    /\ IsDispatch(i) =>
         /\ Len(Ops(log[i], "jiraGetIssue")) <= 1
         /\ Len(Ops(log[i], "lookupByEmail")) = idx[i]
         /\ idx[i] <= Len(emails[i])
         /\ Len(Ops(log[i], "chat.postMessage")) <=
              Len(SelectSeq(log[i], LAMBDA e : e.op = "lookupByEmail" /\ e.ret = "ok"))

\* C19 witness: a finished dispatch to two recipients whose first lookup and
\* second send failed, with two lookups and one send on record.
NoRetriesWitness ==
  \E i \in Slots :
    /\ IsDispatch(i) /\ resp[i].status = 200 /\ Len(emails[i]) = 2
    /\ ~results[i][1].ok /\ ~results[i][2].ok
    /\ Len(Ops(log[i], "lookupByEmail")) = 2
    /\ Len(Ops(log[i], "chat.postMessage")) = 1

\* C19 witness for the click path: a delivery ended by a failed transition
\* with that one call on record.
NoRetriesActionWitness ==
  \E i \in Slots :
    /\ IsAction(i) /\ pc[i] = "done"
    /\ Len(log[i]) = 1 /\ log[i][1].ret = "error"


\* C20: when the clicker's profile cannot be obtained, the delivery still
\* writes the attribution comment and names the actor by the raw platform
\* user identifier (build of part_000, the one that writes the comment).
ProfileUnavailableFallsBackToId ==
  \A i \in Slots :
    (/\ build = "A" /\ IsAction(i) /\ pc[i] = "done"
     /\ \E p \in 1..Len(log[i]) : log[i][p].op = "users.info" /\ log[i][p].ret = "fail")
    => \E p \in 1..Len(log[i]) :
         /\ log[i][p].op = "addComment"
         /\ log[i][p].arg.by = Payload(i).user.id


\* the attribution comments on ticket k that record the decision of transition t
CommentsFor(k, t) == SelectSeq(comments[k], LAMBDA c : c.decision = Decision(t))

\* C21: with a tracker that rejects a repeated transition, the deliveries of
\* one token, in sequence or interleaved, append at most one attribution
\* comment to the ticket for that token.
AtMostOneCommentPerToken ==
  \A k \in TicketKeys : \A t \in {ApproveTransitionId, RejectTransitionId} :
    Len(CommentsFor(k, t)) <= 1

\* C21 witness: two finished deliveries of the same token, the second
\* rejected by the tracker, and one comment on the ticket.
AtMostOneCommentPerTokenWitness ==
  \E i, j \in Slots :
    /\ i # j /\ req[i] = req[j] /\ IsAction(i) /\ TokenDecodes(i)
    /\ pc[i] = "done" /\ pc[j] = "done"
    /\ CommentWritten(i) /\ SawConflict(j)
    /\ Len(CommentsFor(IssueKey(i), TransitionId(i))) = 1

\* C21 witness for the interleaved case: the second delivery's transition is
\* rejected while the first has not yet written its comment.
InterleavedReplayWitness ==
  \E i, j \in Slots :
    /\ i # j /\ req[i] = req[j] /\ IsAction(i) /\ TokenDecodes(i)
    /\ pc[i] = "profile" /\ SawConflict(j)


\* the transition id a delivery sent to the tracker (its first outbound call)
SentTransitionId(i) == log[i][1].arg.transitionId

\* C22: the handler sends the tracker only the two issued transition ids, and
\* the decision in its comment and in its rewritten message is Approved
\* exactly when it sent the approve transition and Rejected exactly when it
\* sent the reject transition.
DecisionMatchesTransition ==
  \A i \in Slots : IsAction(i) =>
    \A p \in 1..Len(log[i]) :
      /\ log[i][p].op = "transition" =>
           log[i][p].arg.transitionId \in IssuedTransitionIds
      /\ log[i][p].op \in {"addComment", "chat.update"} =>
           /\ log[i][p].arg.decision = "Approved" <=> SentTransitionId(i) = ApproveTransitionId
           /\ log[i][p].arg.decision = "Rejected" <=> SentTransitionId(i) = RejectTransitionId


\* the delivery's own transition call came back failed (unreachable or error)
TransitionFailed(i) ==
  \E p \in 1..Len(log[i]) : log[i][p].op = "transition" /\ log[i][p].ret = "error"

\* C23: a delivery whose own transition call failed makes no addComment call
\* and no message update; a delivery that makes either has had its
\* transition accepted, so the tracker has recorded a decision for the ticket.
NoReportWithoutTransition ==
  \A i \in Slots : IsAction(i) =>
    /\ TransitionFailed(i) => CommentCalls(i) = <<>> /\ UpdateCalls(i) = <<>>
    /\ (CommentCalls(i) # <<>> \/ UpdateCalls(i) # <<>>) =>
         /\ log[i][1].op = "transition" /\ log[i][1].ret = "ok"
         /\ status[IssueKey(i)] # Awaiting

\* C23 witness: a finished delivery whose transition failed while another
\* delivery of the same token went on to report.
NoReportWithoutTransitionWitness ==
  \E i, j \in Slots :
    /\ i # j /\ req[i] = req[j] /\ IsAction(i)
    /\ pc[i] = "done" /\ TransitionFailed(i)
    /\ CommentCalls(i) = <<>> /\ UpdateCalls(i) = <<>>
    /\ (CommentCalls(j) # <<>> \/ UpdateCalls(j) # <<>>)


\* C24: a request that passes the middleware is answered exactly once when
\* its collaborator calls return: its handler never writes a second
\* response, has written one exactly when it has ended, and does end.
ExactlyOneResponse ==
  /\ [](\A i \in Slots : Authorized(req[i]) =>
          /\ sent[i] <= 1
          /\ sent[i] = 1 <=> pc[i] = "done"
          /\ sent[i] = 1 <=> Responded(i))
  /\ <>[](\A i \in Slots : Authorized(req[i]) => sent[i] = 1)

\* C24 witnesses: one answered request on each exclusive path: the early
\* 400, the dispatch success path, a catch path, and the click's success path.
ExactlyOneResponseWitness ==
  \E i \in Slots :
    /\ Authorized(req[i]) /\ IsAction(i) /\ sent[i] = 1
    /\ TransitionFailed(i)

Early400Witness ==
  \E i \in Slots : Authorized(req[i]) /\ IsDispatch(i) /\ sent[i] = 1 /\ resp[i].status = 400

DispatchAnsweredWitness ==
  \E i \in Slots : Authorized(req[i]) /\ IsDispatch(i) /\ sent[i] = 1
                   /\ resp[i].status = 200 /\ Len(emails[i]) = 2

ClickAcknowledgedWitness ==
  \E i \in Slots : IsAction(i) /\ sent[i] = 1 /\ UpdateCalls(i) # <<>> /\ resp[i] = Ack

====
